---- MODULE Spec2Model ----
(***************************************************************************)
(* Model of the meter ETL: src/main.py runs run_etl (src/src/etl/etl_run.py)*)
(* and then run_queries (src/src/sql/run_queries.py).  run_etl reads the    *)
(* meter-day records, expands them to hourly rows                          *)
(* (src/src/data_io/reader.py), adds the hourly features and aggregates to *)
(* daily and monthly rows (src/src/features/feature_generator.py) and      *)
(* saves the tables (src/src/utils/db_utils.py).                           *)
(*                                                                         *)
(* Numbers.  A kWh value is an integer number of ticks, one tick being     *)
(* half a micro-kWh, so that round(6) is not the identity.  A calendar     *)
(* date is its number of days since 1970-01-01, an instant its number of   *)
(* hours since 1970-01-01T00:00Z.  An ISO timestamp string with an offset  *)
(* is the record [wall, off, marked]: the wall clock it shows (hours since *)
(* the epoch), the offset it shows (hours) and whether it ends with an     *)
(* offset token at all (a naive string has marked = FALSE and off = 0).    *)
(* A float that may be NaN is <<>> (NaN) or <<x>>; a mean is the pair      *)
(* <<sum, count>>.                                                         *)
(***************************************************************************)
EXTENDS Integers, Sequences, FiniteSets, TLC

VARIABLES pc, raw, hourly_raw, hourly, daily, monthly, saved, db_exists, err, qi, qfailed

vars == <<pc, raw, hourly_raw, hourly, daily, monthly, saved, db_exists, err, qi, qfailed>>

-----------------------------------------------------------------------------
(* Bounds of the model                                                     *)

\* Largest number of meter-day records in the input table.
MaxRecords == 2

\* Largest number of rows of an hourly table handed directly to a feature function.
MaxRows == 2

-----------------------------------------------------------------------------
(* Calendar arithmetic (datetime.date, Timestamp.dt.year/month/dayofweek)  *)

DaysFromCivil(y, m, d) ==
  LET yy  == IF m <= 2 THEN y - 1 ELSE y
      era == yy \div 400
      yoe == yy - era * 400
      mp  == IF m > 2 THEN m - 3 ELSE m + 9
      doy == (153 * mp + 2) \div 5 + d - 1
      doe == yoe * 365 + yoe \div 4 - yoe \div 100 + doy
  IN  era * 146097 + doe - 719468

CivilFromDays(z) ==
  LET zz  == z + 719468
      era == zz \div 146097
      doe == zz - era * 146097
      yoe == (doe - doe \div 1460 + doe \div 36524 - doe \div 146096) \div 365
      doy == doe - (365 * yoe + yoe \div 4 - yoe \div 100)
      mp  == (5 * doy + 2) \div 153
      d   == doy - (153 * mp + 2) \div 5 + 1
      m   == IF mp < 10 THEN mp + 3 ELSE mp - 9
      y   == yoe + era * 400 + (IF m <= 2 THEN 1 ELSE 0)
  IN  [year |-> y, month |-> m, day |-> d]

YearOf(date) == CivilFromDays(date).year

MonthOf(date) == CivilFromDays(date).month

\* Monday = 0 ... Sunday = 6; 1970-01-01 was a Thursday.
DayOfWeek(date) == (date + 3) % 7

DateOfHours(hours) == hours \div 24

HourOfHours(hours) == hours % 24

-----------------------------------------------------------------------------
(* The configured zone, settings.LOCAL_TZNAME = "Europe/Vilnius": EET      *)
(* (UTC+2), and EEST (UTC+3) from 01:00 UTC on the last Sunday of March to *)
(* 01:00 UTC on the last Sunday of October.                                *)

LastSundayOf(y, m) ==
  LET last == DaysFromCivil(y, m, 31)
  IN  last - ((DayOfWeek(last) + 1) % 7)

\* The zone's UTC offset (hours) at an instant.
LocalUtcOffset(instant) ==
  LET y     == YearOf(DateOfHours(instant))
      start == LastSundayOf(y, 3) * 24 + 1
      end   == LastSundayOf(y, 10) * 24 + 1
  IN  IF start <= instant /\ instant < end THEN 3 ELSE 2

\* An offset that does not follow the zone's rules: standard time the year round.
StandardOffset(wall) == 2

\* pytz timezone.localize(naive), is_dst=False: the offset attached to a wall clock.
\* An ambiguous or non-existent wall clock gets the standard offset.
LocalizeOffset(wall) ==
  IF LocalUtcOffset(wall - 2) = 2 THEN 2
  ELSE IF LocalUtcOffset(wall - 3) = 3 THEN 3
  ELSE 2

\* The instant an aware timestamp [wall, off] denotes.
InstantOf(ts) == ts.wall - ts.off

-----------------------------------------------------------------------------
(* Numbers                                                                 *)

TicksPerKwh == 2 * 1000000

\* Series.round(6) on a value given in ticks: to the nearest micro-kWh, a value
\* half-way between two going to the even one.
Round6(x) ==
  IF x % 2 = 0 THEN x
  ELSE IF ((x - 1) \div 2) % 2 = 0 THEN x - 1 ELSE x + 1

\* The sum of s[lo..hi], by halves.
RECURSIVE SumRange(_, _, _)
SumRange(s, lo, hi) ==
  IF lo > hi THEN 0
  ELSE IF lo = hi THEN s[lo]
  ELSE SumRange(s, lo, (lo + hi) \div 2) + SumRange(s, (lo + hi) \div 2 + 1, hi)

SumSeq(s) == SumRange(s, 1, Len(s))

\* The greatest element of a non-empty sequence.
MaxSeq(s) ==
  CHOOSE m \in {s[i] : i \in 1..Len(s)} : \A i \in 1..Len(s) : s[i] <= m

\* Lexicographic order on integer tuples of one length (the sort keys of a row).
RECURSIVE LexLess(_, _)
LexLess(a, b) ==
  IF a = <<>> THEN FALSE
  ELSE IF Head(a) # Head(b) THEN Head(a) < Head(b)
  ELSE LexLess(Tail(a), Tail(b))

\* A function on 1..n as the tuple of its values.
AsTuple(f, n) == SubSeq(f, 1, n)

\* Two position lists, each in ascending order of keys, merged into one; of two
\* rows of equal keys the one of list a comes first.
MergePlaces(a, b, keys) ==
  IF ~LexLess(keys[b[1]], keys[a[Len(a)]]) THEN a \o b
  ELSE LET placeA == AsTuple([i \in 1..Len(a) |->
                        i + Cardinality({j \in 1..Len(b) : LexLess(keys[b[j]], keys[a[i]])})], Len(a))
           placeB == AsTuple([j \in 1..Len(b) |->
                        j + Cardinality({i \in 1..Len(a) : ~LexLess(keys[b[j]], keys[a[i]])})], Len(b))
       IN  AsTuple([p \in 1..(Len(a) + Len(b)) |->
                      IF \E i \in 1..Len(a) : placeA[i] = p
                      THEN a[CHOOSE i \in 1..Len(a) : placeA[i] = p]
                      ELSE b[CHOOSE j \in 1..Len(b) : placeB[j] = p]], Len(a) + Len(b))

\* The positions lo..hi in ascending order of keys, positions of equal keys in
\* ascending order (a stable merge sort).
RECURSIVE SortPlaces(_, _, _)
SortPlaces(lo, hi, keys) ==
  IF lo > hi THEN <<>>
  ELSE IF lo = hi THEN <<lo>>
  ELSE MergePlaces(SortPlaces(lo, (lo + hi) \div 2, keys),
                   SortPlaces((lo + hi) \div 2 + 1, hi, keys), keys)

\* DataFrame.sort_values(...).reset_index(drop=True): the rows of s in ascending
\* order of keys (keys[i] the key of s[i]), rows of equal keys keeping their order.
SortValues(s, keys) ==
  LET perm == SortPlaces(1, Len(s), keys) IN AsTuple([i \in 1..Len(s) |-> s[perm[i]]], Len(s))

-----------------------------------------------------------------------------
(* The input: meter-day records                                            *)

Clients == {"c1"}

Devices == {"A", "B"}

\* The order of the ext_dev_ref strings.
DevRank(dev) == IF dev = "A" THEN 1 ELSE 2

\* 2024-03-31 and 2024-10-27 are the days the zone changes its offset in 2024.
Dates == {DaysFromCivil(2024, 3, 31), DaysFromCivil(2024, 6, 15), DaysFromCivil(2024, 10, 27)}

\* [0, 1, ..., 23] kWh.
Ramp == [i \in 1..24 |-> (i - 1) * TicksPerKwh]

\* A record with 23 readings.
Short == [i \in 1..23 |-> i * TicksPerKwh]

Arrays == {Ramp, Short}

MeterDayRecords ==
  [client_id : Clients, ext_dev_ref : Devices, resolution : {"hourly"},
   date : Dates, energy_consumption : Arrays]

RECURSIVE TablesOf(_, _)
TablesOf(S, n) ==
  IF n = 0 THEN {<<>>}
  ELSE LET shorter == TablesOf(S, n - 1)
       IN  shorter \cup {Append(t, r) : t \in {u \in shorter : Len(u) = n - 1}, r \in S}

RawTables == TablesOf(MeterDayRecords, MaxRecords)

-----------------------------------------------------------------------------
(* Hourly Expander, src/src/data_io/reader.py                              *)

\* reader.py:39, the test of a record's array.
ValidArray(arr) == Len(arr) = 24

\* reader.py:51, timezone.localize(datetime.combine(day_date, time(0, 0))).
LocalMidnight(date) == [wall |-> date * 24, off |-> LocalizeOffset(date * 24), marked |-> TRUE]

\* reader.py:53, local_midnight + timedelta(hours=h): the sum keeps the tzinfo of
\* local_midnight, the clock advancing by h.
PlusHours(ts, h) == [wall |-> ts.wall + h, off |-> ts.off, marked |-> ts.marked]

\* reader.py:51-64, the 24 rows of one record.
ExpandRecord(rec) ==
  LET local_midnight == LocalMidnight(rec.date)
  IN  [i \in 1..Len(rec.energy_consumption) |->
         [client_id       |-> rec.client_id,
          ext_dev_ref     |-> rec.ext_dev_ref,
          resolution      |-> rec.resolution,
          date_local      |-> rec.date,
          hour            |-> i - 1,
          timestamp_local |-> PlusHours(local_midnight, i - 1),
          timestamp_utc   |-> InstantOf(PlusHours(local_midnight, i - 1)),
          consumption_kwh |-> rec.energy_consumption[i]]]

\* reader.py:37-64, the loop over the records.
RECURSIVE ExpandRows(_)
ExpandRows(df) ==
  IF df = <<>> THEN <<>>
  ELSE IF ~ValidArray(Head(df).energy_consumption) THEN ExpandRows(Tail(df))
  ELSE ExpandRecord(Head(df)) \o ExpandRows(Tail(df))

\* The key of sort_values(["ext_dev_ref", "timestamp_local"]): timestamp_local is
\* the ISO string, ordered by the clock it shows and then by the offset it shows.
RawSortKey(row) == <<DevRank(row.ext_dev_ref), row.timestamp_local.wall, row.timestamp_local.off>>

\* An empty result is pd.DataFrame([]): a table with no rows and no columns.
ExpandDailyArrayToHourly(df) ==
  LET rows == ExpandRows(df)
  IN  IF rows = <<>> THEN <<>>
      ELSE SortValues(rows, [i \in 1..Len(rows) |-> RawSortKey(rows[i])])

\* A table made of rows has every column of its rows; the empty table has none.
HasColumns(df) == df # <<>>

-----------------------------------------------------------------------------
(* Hourly feature stage, src/src/features/feature_generator.py             *)

NaN == <<>>

Some(x) == <<x>>

\* feature_generator.py:20-25, _series_has_tz_offset: some string of the column
\* ends with an offset token.
SeriesHasTzOffset(series) == \E i \in 1..Len(series) : series[i].marked

\* feature_generator.py:39, getattr(x, "tzinfo", None) is not None: the value is a
\* Timestamp object with a zone, held with a tzinfo field; a string has none.
HasTzinfo(x) == "tzinfo" \in DOMAIN x

\* feature_generator.py:40-45, _ensure_tz: an aware object is converted to the local
\* zone, a string with an offset token is read at its offset and converted, any
\* other value is localized.
EnsureTz(x) ==
  IF HasTzinfo(x) THEN InstantOf(x)
  ELSE IF x.marked THEN InstantOf(x)
  ELSE x.wall - LocalizeOffset(x.wall)

\* feature_generator.py:27-63, _parse_timestamp_local_to_tz: the instant of each
\* value, held as a tz-aware value of the local zone.  A column with an aware
\* object is mapped value by value.  A column without one is parsed as a whole:
\* with an offset token somewhere it is parsed with utc=True (a string without a
\* token is then read as UTC); else each value is localized.
ParseTimestampLocalToTz(series) ==
  IF \E i \in 1..Len(series) : HasTzinfo(series[i])
  THEN [i \in 1..Len(series) |-> EnsureTz(series[i])]
  ELSE IF SeriesHasTzOffset(series)
  THEN [i \in 1..Len(series) |->
          IF series[i].marked THEN InstantOf(series[i]) ELSE series[i].wall]
  ELSE [i \in 1..Len(series) |-> series[i].wall - LocalizeOffset(series[i].wall)]

\* The clock a tz-aware value of the local zone shows.
LocalClock(instant) == instant + LocalUtcOffset(instant)

\* feature_generator.py:83, parsed.values: the numpy array of a tz-aware column
\* holds naive datetime64 values, the UTC clock of each instant.
SeriesValues(parsed) == [i \in 1..Len(parsed) |-> parsed[i]]

\* feature_generator.py:65-91.  The caller has checked that the column is there.
AddTimeFeaturesHourly(df) ==
  LET parsed == ParseTimestampLocalToTz([i \in 1..Len(df) |-> df[i].timestamp_local])
      stamp  == SeriesValues(parsed)
  IN  [i \in 1..Len(df) |->
         [client_id       |-> df[i].client_id,
          ext_dev_ref     |-> df[i].ext_dev_ref,
          resolution      |-> df[i].resolution,
          timestamp_local |-> df[i].timestamp_local,
          timestamp_utc   |-> df[i].timestamp_utc,
          consumption_kwh |-> df[i].consumption_kwh,
          timestamp       |-> stamp[i],
          hour            |-> HourOfHours(stamp[i]),
          day_of_week     |-> DayOfWeek(DateOfHours(stamp[i])),
          is_weekend      |-> IF DayOfWeek(DateOfHours(stamp[i])) \in {5, 6} THEN 1 ELSE 0,
          date_local      |-> DateOfHours(stamp[i]),
          month           |-> MonthOf(DateOfHours(stamp[i])),
          year            |-> YearOf(DateOfHours(stamp[i]))]]

\* The key of sort_values(["ext_dev_ref", ts_col]).
TsSortKey(row) == <<DevRank(row.ext_dev_ref), row.timestamp>>

SortByDeviceAndTs(df) == SortValues(df, [i \in 1..Len(df) |-> TsSortKey(df[i])])

\* The positions before i of the rows of row i's ext_dev_ref, in order.
EarlierOfDevice(df, i) ==
  SelectSeq([j \in 1..(i - 1) |-> j], LAMBDA j : df[j].ext_dev_ref = df[i].ext_dev_ref)

\* A shift over the whole table, whatever the device of the rows.
TableShift(df, i, lag) ==
  IF i > lag THEN Some(df[i - lag].consumption_kwh) ELSE NaN

\* groupby("ext_dev_ref")["consumption_kwh"].shift(lag) at row i of a sorted table.
GroupShift(df, i, lag) ==
  LET earlier == EarlierOfDevice(df, i)
  IN  IF Len(earlier) >= lag
      THEN Some(df[earlier[Len(earlier) - lag + 1]].consumption_kwh)
      ELSE NaN

\* feature_generator.py:94-109, with the lags run_etl passes, [1, 24].
AddLagFeatures(df) ==
  LET sorted == SortByDeviceAndTs(df)
  IN  [i \in 1..Len(sorted) |->
         [c \in DOMAIN sorted[i] \cup {"lag_1h", "lag_24h"} |->
            IF c = "lag_1h" THEN GroupShift(sorted, i, 1)
            ELSE IF c = "lag_24h" THEN GroupShift(sorted, i, 24)
            ELSE sorted[i][c]]]

\* s.shift(1).rolling(window, min_periods=1).mean() at row i of a sorted table: the
\* mean of the up to `window` readings of the device before row i.
RollingMeanBefore(df, i, window) ==
  LET earlier == EarlierOfDevice(df, i)
      n       == IF Len(earlier) < window THEN Len(earlier) ELSE window
      win     == [k \in 1..n |-> df[earlier[Len(earlier) - n + k]].consumption_kwh]
  IN  IF n = 0 THEN NaN ELSE Some(<<SumSeq(win), n>>)

\* feature_generator.py:112-133, with window_hours = 24.  rolling_std_24h is a
\* square root and is not carried.
AddRollingFeaturesHourly(df) ==
  LET sorted == SortByDeviceAndTs(df)
  IN  [i \in 1..Len(sorted) |->
         [c \in DOMAIN sorted[i] \cup {"rolling_mean_24h"} |->
            IF c = "rolling_mean_24h" THEN RollingMeanBefore(sorted, i, 24)
            ELSE sorted[i][c]]]

-----------------------------------------------------------------------------
(* Daily aggregator, src/src/features/feature_generator.py:136-173         *)

ClientRank(c) == IF c = "c1" THEN 1 ELSE 2

\* The group key of groupby(["client_id", "ext_dev_ref", "date_local"]).
DailyKey(row) == <<ClientRank(row.client_id), DevRank(row.ext_dev_ref), row.date_local>>

\* The least key of a non-empty set of keys.
LeastKey(S) == CHOOSE k \in S : \A other \in S : ~LexLess(other, k)

\* The keys of S in ascending order: groupby lists its groups by sorted key.
RECURSIVE SortedKeys(_)
SortedKeys(S) ==
  IF S = {} THEN <<>>
  ELSE LET k == LeastKey(S) IN <<k>> \o SortedKeys(S \ {k})

\* The rows of df in the group k, in the order of df.
GroupRows(df, Key(_), k) == SelectSeq(df, LAMBDA row : Key(row) = k)

Consumption(rows) == [i \in 1..Len(rows) |-> rows[i].consumption_kwh]

\* The last row, in the order of the table, that holds the group's maximum.
LastMax(rows) ==
  LET m == MaxSeq(Consumption(rows))
  IN  CHOOSE i \in 1..Len(rows) :
        /\ rows[i].consumption_kwh = m
        /\ \A j \in (i + 1)..Len(rows) : rows[j].consumption_kwh # m

\* groupby(...)["consumption_kwh"].idxmax() within one group: the first row, in the
\* order of the table, that holds the group's maximum.
IdxMax(rows) ==
  LET m == MaxSeq(Consumption(rows))
  IN  CHOOSE i \in 1..Len(rows) :
        /\ rows[i].consumption_kwh = m
        /\ \A j \in 1..(i - 1) : rows[j].consumption_kwh # m

\* A float quotient p / (s / n): finite, held as its three integers, or one of
\* inf, -inf, nan.
Quotient(p, s, n) ==
  IF s # 0 THEN [kind |-> "finite", p |-> p, s |-> s, n |-> n]
  ELSE IF p > 0 THEN [kind |-> "inf", p |-> 0, s |-> 1, n |-> 1]
  ELSE IF p < 0 THEN [kind |-> "-inf", p |-> 0, s |-> 1, n |-> 1]
  ELSE [kind |-> "nan", p |-> 0, s |-> 1, n |-> 1]

FloatZero == [kind |-> "finite", p |-> 0, s |-> 1, n |-> 1]

\* feature_generator.py:157, .replace(np.inf, 0).fillna(0).
ReplaceInfFillNa(q) == IF q.kind \in {"inf", "nan"} THEN FloatZero ELSE q

\* feature_generator.py:157.
PeakToMeanRatio(peak_kwh, total_kwh, hourly_count) ==
  ReplaceInfFillNa(Quotient(peak_kwh, total_kwh, hourly_count))

\* feature_generator.py:160, the night hours, range(0, 7).
IsNightHour(h) == 0 <= h /\ h < 7

\* feature_generator.py:161, the day hours, range(18, 24).
IsDayHour(h) == 18 <= h /\ h < 24

\* The sum of the readings of the rows whose hour passes Test; a group with no such
\* row is absent from the sum's table and filled with 0 after the merge.
HoursSum(rows, Test(_)) == SumSeq(Consumption(SelectSeq(rows, LAMBDA row : Test(row.hour))))

\* feature_generator.py:143-164, one row of a group: the aggregates, the peak merged
\* on the key, the ratio and the night and day sums.  std_kwh is a square root and
\* is not carried.
DailyRow(rows) ==
  LET vals == Consumption(rows)
      peak == rows[IdxMax(rows)]
  IN  [client_id          |-> rows[1].client_id,
       ext_dev_ref        |-> rows[1].ext_dev_ref,
       date_local         |-> rows[1].date_local,
       total_kwh          |-> SumSeq(vals),
       mean_kwh           |-> <<SumSeq(vals), Len(vals)>>,
       max_kwh            |-> MaxSeq(vals),
       hourly_count       |-> Len(vals),
       peak_hour          |-> peak.hour,
       peak_kwh           |-> peak.consumption_kwh,
       peak_to_mean_ratio |-> PeakToMeanRatio(peak.consumption_kwh, SumSeq(vals), Len(vals)),
       night_kwh          |-> HoursSum(rows, IsNightHour),
       day_kwh            |-> HoursSum(rows, IsDayHour)]

\* The positions of the rows of res of row i's client and device.
SameDevice(res, i) ==
  SelectSeq([j \in 1..Len(res) |-> j],
            LAMBDA j : res[j].client_id = res[i].client_id /\ res[j].ext_dev_ref = res[i].ext_dev_ref)

\* feature_generator.py:136-173.  The groups come in key order, which is the order
\* of the sort at line 167; cumulative_total_kwh is the running sum over the
\* device's days and weekend_vs_weekday the quotient of the day's total by the
\* device's mean total plus 1e-6 (2 ticks), held as its integers.
AggregateDailyFromHourly(df) ==
  LET keys == SortedKeys({DailyKey(df[i]) : i \in 1..Len(df)})
      res  == [g \in 1..Len(keys) |-> DailyRow(GroupRows(df, DailyKey, keys[g]))]
  IN  [g \in 1..Len(res) |->
         LET mine   == SameDevice(res, g)
             totals == [k \in 1..Len(mine) |-> res[mine[k]].total_kwh]
             upto   == SelectSeq(mine, LAMBDA j : j <= g)
         IN  [c \in DOMAIN res[g] \cup {"cumulative_total_kwh", "weekend_vs_weekday"} |->
                IF c = "cumulative_total_kwh"
                THEN SumSeq([k \in 1..Len(upto) |-> res[upto[k]].total_kwh])
                ELSE IF c = "weekend_vs_weekday"
                THEN [total |-> res[g].total_kwh, dev_sum |-> SumSeq(totals),
                      dev_count |-> Len(totals), eps |-> 2]
                ELSE res[g][c]]]

-----------------------------------------------------------------------------
(* Daily enrichment, src/src/features/feature_generator.py:176-234         *)

\* The rows of a device's days before and at row i, in order.
DaysUpTo(df, i) ==
  SelectSeq([j \in 1..i |-> j],
            LAMBDA j : df[j].client_id = df[i].client_id /\ df[j].ext_dev_ref = df[i].ext_dev_ref)

\* (sum / count).round(6) in ticks: the nearest micro-kWh, half-way going to even.
RoundMean6(sum, count) ==
  LET q   == 2 * count
      fl  == sum \div q
      rem == sum % q
  IN  IF 2 * rem < q THEN 2 * fl
      ELSE IF 2 * rem > q THEN 2 * (fl + 1)
      ELSE IF fl % 2 = 0 THEN 2 * fl ELSE 2 * (fl + 1)

\* s.rolling(window=w, min_periods=1).mean().round(6) at row i of the sorted table:
\* the mean of the device's last w rows up to row i.
RollingDailyMean(df, i, w) ==
  LET upto == DaysUpTo(df, i)
      n    == IF Len(upto) < w THEN Len(upto) ELSE w
      win  == [k \in 1..n |-> df[upto[Len(upto) - n + k]].total_kwh]
  IN  RoundMean6(SumSeq(win), n)

\* feature_generator.py:176-193, with the windows run_etl passes, [7, 30].
AddRollingAggregatesDaily(df_daily) ==
  LET sorted == SortValues(df_daily, [i \in 1..Len(df_daily) |-> DailyKey(df_daily[i])])
  IN  [i \in 1..Len(sorted) |->
         [c \in DOMAIN sorted[i] \cup {"rolling_7d_total_kwh", "rolling_30d_total_kwh"} |->
            IF c = "rolling_7d_total_kwh" THEN RollingDailyMean(sorted, i, 7)
            ELSE IF c = "rolling_30d_total_kwh" THEN RollingDailyMean(sorted, i, 30)
            ELSE sorted[i][c]]]

\* A total of whole + frac / TicksPerKwh kWh, 0 <= frac < TicksPerKwh, is at most
\* the bin edge of `edge` kWh.
AtMostEdge(whole, frac, edge) == whole < edge \/ (whole = edge /\ frac = 0)

\* feature_generator.py:202-206, pd.cut with bins [-1, 5, 15, 50, 999999] kWh, each
\* bin closed on the right; a value in no bin has no category.
CutBin(whole, frac) ==
  IF AtMostEdge(whole, frac, -1) THEN "none"
  ELSE IF AtMostEdge(whole, frac, 5) THEN "very_low"
  ELSE IF AtMostEdge(whole, frac, 15) THEN "low"
  ELSE IF AtMostEdge(whole, frac, 50) THEN "medium"
  ELSE IF AtMostEdge(whole, frac, 999999) THEN "high"
  ELSE "none"

\* The category of a total held in ticks.
ConsumptionCategory(total_kwh) == CutBin(total_kwh \div TicksPerKwh, total_kwh % TicksPerKwh)

\* feature_generator.py:196-207.
CategorizeDailyConsumption(df_daily) ==
  [i \in 1..Len(df_daily) |->
     [c \in DOMAIN df_daily[i] \cup {"consumption_category"} |->
        IF c = "consumption_category" THEN ConsumptionCategory(df_daily[i].total_kwh)
        ELSE df_daily[i][c]]]

\* feature_generator.py:196-207 on a table whose totals are beyond the range of
\* ticks and are held as whole kWh and a fraction in ticks.
CategorizeWideTotals(df_daily) ==
  [i \in 1..Len(df_daily) |->
     [c \in DOMAIN df_daily[i] \cup {"consumption_category"} |->
        IF c = "consumption_category"
        THEN CutBin(df_daily[i].total_kwh.whole, df_daily[i].total_kwh.frac)
        ELSE df_daily[i][c]]]

\* feature_generator.py:224-229.
SeasonOf(month) ==
  IF month \in {12, 1, 2} THEN "winter"
  ELSE IF month \in {3, 4, 5} THEN "spring"
  ELSE IF month \in {6, 7, 8} THEN "summer"
  ELSE "fall"

\* feature_generator.py:210-233.  is_holiday, a lookup in the Lithuanian holiday
\* calendar, is not carried.
AddSeasonAndHolidayFlags(df_daily) ==
  [i \in 1..Len(df_daily) |->
     [c \in DOMAIN df_daily[i] \cup {"month", "season", "is_summer_vacation"} |->
        IF c = "month" THEN MonthOf(df_daily[i].date_local)
        ELSE IF c = "season" THEN SeasonOf(MonthOf(df_daily[i].date_local))
        ELSE IF c = "is_summer_vacation"
        THEN (IF MonthOf(df_daily[i].date_local) \in {7, 8} THEN 1 ELSE 0)
        ELSE df_daily[i][c]]]

-----------------------------------------------------------------------------
(* Monthly aggregator, src/src/features/feature_generator.py:236-260       *)

\* A group key without the month: one group per device and year.
YearlyKey(row) ==
  <<ClientRank(row.client_id), DevRank(row.ext_dev_ref), YearOf(row.date_local), 0>>

\* The group key of groupby(["client_id", "ext_dev_ref", "year", "month"]).
MonthlyKey(row) ==
  <<ClientRank(row.client_id), DevRank(row.ext_dev_ref), YearOf(row.date_local), MonthOf(row.date_local)>>

MonthlyRow(rows) ==
  LET totals == [i \in 1..Len(rows) |-> rows[i].total_kwh]
  IN  [client_id         |-> rows[1].client_id,
       ext_dev_ref       |-> rows[1].ext_dev_ref,
       year              |-> YearOf(rows[1].date_local),
       month             |-> MonthOf(rows[1].date_local),
       monthly_total_kwh |-> Round6(SumSeq(totals)),
       monthly_mean_kwh  |-> RoundMean6(SumSeq(totals), Len(totals)),
       monthly_max_kwh   |-> Round6(MaxSeq(totals)),
       days_with_data    |-> Len(totals)]

DeriveMonthlyFromDaily(df_daily) ==
  LET keys == SortedKeys({MonthlyKey(df_daily[i]) : i \in 1..Len(df_daily)})
  IN  [g \in 1..Len(keys) |-> MonthlyRow(GroupRows(df_daily, MonthlyKey, keys[g]))]

-----------------------------------------------------------------------------
(* Load-shape similarity, src/src/features/feature_generator.py:262-282    *)

\* The index of the pivot table: (ext_dev_ref, date_local).
PivotKey(row) == <<DevRank(row.ext_dev_ref), row.date_local>>

RECURSIVE ProdSeq(_)
ProdSeq(s) == IF s = <<>> THEN 1 ELSE Head(s) * ProdSeq(Tail(s))

\* One row of pivot_table(index=[ext_dev_ref, date_local], columns="hour",
\* values="consumption_kwh", fill_value=0): per hour of the table the mean of the
\* group's readings at that hour, 0 where it has none.  The means of a row are held
\* over their common denominator, the row being <<numerators, denominator>>.
PivotRow(rows, hours) ==
  LET cell(h) == Consumption(SelectSeq(rows, LAMBDA row : row.hour = h))
      count   == [k \in 1..Len(hours) |-> IF cell(hours[k]) = <<>> THEN 1 ELSE Len(cell(hours[k]))]
      den     == ProdSeq(count)
  IN  <<[k \in 1..Len(hours) |-> SumSeq(cell(hours[k])) * (den \div count[k])], den>>

DotProduct(x, y) == SumSeq([k \in 1..Len(x) |-> x[k] * y[k]])

\* sklearn cosine_similarity of two pivot rows: each row is divided by its norm, a
\* zero norm being taken as 1, and the dot product is taken.  The value is
\* dot / sqrt(nx * ny), held as these integers; it does not depend on the rows'
\* denominators.
CosineSimilarity(x, y) ==
  LET nx == DotProduct(x[1], x[1])
      ny == DotProduct(y[1], y[1])
  IN  [dot |-> DotProduct(x[1], y[1]),
       nx  |-> IF nx = 0 THEN 1 ELSE nx,
       ny  |-> IF ny = 0 THEN 1 ELSE ny]

\* The rank of an hour among the hours of the table.
SortedHours(df) == SortedKeys({<<df[i].hour>> : i \in 1..Len(df)})

\* feature_generator.py:262-282: the similarity of each pivot row with the row
\* before it of the same device, none for a device's first row, merged into the
\* daily table on (ext_dev_ref, date_local).
AddDailyLoadShapeSimilarity(df_hourly, df_daily) ==
  LET hs     == SortedHours(df_hourly)
      hours  == [k \in 1..Len(hs) |-> hs[k][1]]
      keys   == SortedKeys({PivotKey(df_hourly[i]) : i \in 1..Len(df_hourly)})
      vec(g) == PivotRow(GroupRows(df_hourly, PivotKey, keys[g]), hours)
      sim(g) == IF g = 1 \/ keys[g - 1][1] # keys[g][1] THEN NaN
                ELSE Some(CosineSimilarity(vec(g - 1), vec(g)))
      at(row) == CHOOSE g \in 1..Len(keys) : keys[g] = PivotKey(row)
  IN  [i \in 1..Len(df_daily) |->
         [c \in DOMAIN df_daily[i] \cup {"daily_load_similarity"} |->
            IF c = "daily_load_similarity"
            THEN (IF \E g \in 1..Len(keys) : keys[g] = PivotKey(df_daily[i])
                  THEN sim(at(df_daily[i])) ELSE NaN)
            ELSE df_daily[i][c]]]

-----------------------------------------------------------------------------
(* Persistence and queries                                                 *)

\* src/src/sql/queries.py: the number of entries of QUERIES.
NumQueries == 11

\* The outcomes of one save_to_sqlite_table call (src/src/utils/db_utils.py:10-25):
\* the write succeeds, df.to_sql raises, or an index statement raises, which the
\* function catches and logs.
SaveOutcomes == {"saved", "to_sql_raises", "index_raises"}

-----------------------------------------------------------------------------
(* run_etl and run_queries as main.py runs them                            *)

Init ==
  /\ pc = "start"
  /\ raw = <<>>
  /\ hourly_raw = <<>>
  /\ hourly = <<>>
  /\ daily = <<>>
  /\ monthly = <<>>
  /\ saved = <<>>
  /\ db_exists = FALSE
  /\ err = "none"
  /\ qi = 0
  /\ qfailed = 0

\* etl_run.py:15-27: the input is read; with no rows run_etl logs and returns, and
\* main goes on to run_queries.
ReadAllParquets ==
  /\ pc = "start"
  /\ \E t \in RawTables :
       IF t = <<>>
       THEN /\ raw' = <<>>
            /\ pc' = "queries"
       ELSE /\ raw' = t
            /\ pc' = "read"
  /\ UNCHANGED <<hourly_raw, hourly, daily, monthly, saved, db_exists, err, qi, qfailed>>

\* etl_run.py:29-31.
Expand ==
  /\ pc = "read"
  /\ hourly_raw' = ExpandDailyArrayToHourly(raw)
  /\ pc' = "expanded"
  /\ UNCHANGED <<raw, hourly, daily, monthly, saved, db_exists, err, qi, qfailed>>

\* etl_run.py:33; feature_generator.py:70-71 raises KeyError for a table without
\* the timestamp_local column, and nothing in run_etl or main catches it.
TimeFeatures ==
  /\ pc = "expanded"
  /\ IF HasColumns(hourly_raw)
     THEN /\ hourly' = AddTimeFeaturesHourly(hourly_raw)
          /\ pc' = "timed"
          /\ err' = err
     ELSE /\ hourly' = hourly
          /\ pc' = "crashed"
          /\ err' = "KeyError"
  /\ UNCHANGED <<raw, hourly_raw, daily, monthly, saved, db_exists, qi, qfailed>>

\* etl_run.py:34.
LagFeatures ==
  /\ pc = "timed"
  /\ hourly' = AddLagFeatures(hourly)
  /\ pc' = "lagged"
  /\ UNCHANGED <<raw, hourly_raw, daily, monthly, saved, db_exists, err, qi, qfailed>>

\* etl_run.py:35-37.
RollingFeatures ==
  /\ pc = "lagged"
  /\ hourly' = AddRollingFeaturesHourly(hourly)
  /\ pc' = "rolled"
  /\ UNCHANGED <<raw, hourly_raw, daily, monthly, saved, db_exists, err, qi, qfailed>>

\* One call save_to_sqlite_table(df, table, sqlite_path) in run_etl: the call is
\* not wrapped in try/except, so an exception of df.to_sql leaves run_etl and main.
SaveToSqliteTable(table, from, to) ==
  /\ pc = from
  /\ saved' = Append(saved, table)
  /\ \E outcome \in SaveOutcomes :
       IF outcome = "to_sql_raises"
       THEN /\ pc' = "crashed"
            /\ err' = "to_sql"
            /\ db_exists' = db_exists
       ELSE /\ pc' = to
            /\ err' = err
            /\ db_exists' = TRUE
  /\ UNCHANGED <<raw, hourly_raw, hourly, daily, monthly, qi, qfailed>>

\* etl_run.py:39.
SaveHourly == SaveToSqliteTable("meter_hourly", "rolled", "saved_hourly")

\* etl_run.py:41.
AggregateDaily ==
  /\ pc = "saved_hourly"
  /\ daily' = AggregateDailyFromHourly(hourly)
  /\ pc' = "aggregated"
  /\ UNCHANGED <<raw, hourly_raw, hourly, monthly, saved, db_exists, err, qi, qfailed>>

\* etl_run.py:42-46.
EnrichDaily ==
  /\ pc = "aggregated"
  /\ daily' = CategorizeDailyConsumption(AddRollingAggregatesDaily(AddSeasonAndHolidayFlags(daily)))
  /\ pc' = "enriched"
  /\ UNCHANGED <<raw, hourly_raw, hourly, monthly, saved, db_exists, err, qi, qfailed>>

\* etl_run.py:47.
SaveDaily == SaveToSqliteTable("meter_daily", "enriched", "saved_daily")

\* etl_run.py:48.
SaveDailyRolling == SaveToSqliteTable("meter_daily_rolling_7d", "saved_daily", "saved_rolling")

\* etl_run.py:50-52.
DeriveMonthly ==
  /\ pc = "saved_rolling"
  /\ monthly' = DeriveMonthlyFromDaily(daily)
  /\ pc' = "derived"
  /\ UNCHANGED <<raw, hourly_raw, hourly, daily, saved, db_exists, err, qi, qfailed>>

\* etl_run.py:53-55: the last save; run_etl then returns, its tables going out of
\* scope, and main calls run_queries.
SaveMonthly ==
  /\ pc = "derived"
  /\ saved' = Append(saved, "meter_monthly")
  /\ \E outcome \in SaveOutcomes :
       IF outcome = "to_sql_raises"
       THEN /\ pc' = "crashed"
            /\ err' = "to_sql"
            /\ db_exists' = db_exists
            /\ UNCHANGED <<raw, hourly_raw, hourly, daily, monthly>>
       ELSE /\ pc' = "queries"
            /\ err' = err
            /\ db_exists' = TRUE
            /\ raw' = <<>>
            /\ hourly_raw' = <<>>
            /\ hourly' = <<>>
            /\ daily' = <<>>
            /\ monthly' = <<>>
  /\ UNCHANGED <<qi, qfailed>>

\* run_queries.py:14-17: without the database file run_queries logs and returns.
NoDatabase ==
  /\ pc = "queries"
  /\ ~db_exists
  /\ pc' = "done"
  /\ UNCHANGED <<raw, hourly_raw, hourly, daily, monthly, saved, db_exists, err, qi, qfailed>>

\* run_queries.py:21-29: one pass of the loop; an exception of the query or of the
\* export is caught and logged, and the loop goes on.
RunQuery ==
  /\ pc = "queries"
  /\ db_exists
  /\ qi < NumQueries
  /\ qi' = qi + 1
  /\ \E raises \in BOOLEAN : qfailed' = IF raises THEN qfailed + 1 ELSE qfailed
  /\ UNCHANGED <<pc, raw, hourly_raw, hourly, daily, monthly, saved, db_exists, err>>

\* run_queries.py:31-32.
QueriesExecuted ==
  /\ pc = "queries"
  /\ db_exists
  /\ qi = NumQueries
  /\ pc' = "done"
  /\ UNCHANGED <<raw, hourly_raw, hourly, daily, monthly, saved, db_exists, err, qi, qfailed>>

Next ==
  \/ ReadAllParquets
  \/ Expand
  \/ TimeFeatures
  \/ LagFeatures
  \/ RollingFeatures
  \/ SaveHourly
  \/ AggregateDaily
  \/ EnrichDaily
  \/ SaveDaily
  \/ SaveDailyRolling
  \/ DeriveMonthly
  \/ SaveMonthly
  \/ NoDatabase
  \/ RunQuery
  \/ QueriesExecuted

Spec == Init /\ [][Next]_vars

-----------------------------------------------------------------------------
(* The daily functions applied to an hourly table of any rows in any order *)

FnDates == {DaysFromCivil(2024, 3, 30), DaysFromCivil(2024, 3, 31), DaysFromCivil(2024, 4, 1)}

\* A night hour and a day hour.
FnHours == {2, 20}

\* Readings in ticks: below zero, zero, half a micro-kWh and above.
FnValues == {-3, 0, 1, 3}

FnRows ==
  [client_id : Clients, ext_dev_ref : Devices, date_local : FnDates,
   hour : FnHours, consumption_kwh : FnValues]

FnTables == TablesOf(FnRows, MaxRows) \ {<<>>}

InitFn ==
  /\ pc = "fn_hourly"
  /\ hourly \in FnTables
  /\ raw = <<>>
  /\ hourly_raw = <<>>
  /\ daily = <<>>
  /\ monthly = <<>>
  /\ saved = <<>>
  /\ db_exists = FALSE
  /\ err = "none"
  /\ qi = 0
  /\ qfailed = 0

FnAggregate ==
  /\ pc = "fn_hourly"
  /\ daily' = AggregateDailyFromHourly(hourly)
  /\ pc' = "fn_daily"
  /\ UNCHANGED <<raw, hourly_raw, hourly, monthly, saved, db_exists, err, qi, qfailed>>

FnSimilarity ==
  /\ pc = "fn_daily"
  /\ daily' = AddDailyLoadShapeSimilarity(hourly, daily)
  /\ pc' = "fn_similarity"
  /\ UNCHANGED <<raw, hourly_raw, hourly, monthly, saved, db_exists, err, qi, qfailed>>

FnMonthly ==
  /\ pc = "fn_daily"
  /\ monthly' = DeriveMonthlyFromDaily(daily)
  /\ pc' = "fn_monthly"
  /\ UNCHANGED <<raw, hourly_raw, hourly, daily, saved, db_exists, err, qi, qfailed>>

NextFn ==
  \/ FnAggregate
  \/ FnSimilarity
  \/ FnMonthly

SpecFn == InitFn /\ [][NextFn]_vars

-----------------------------------------------------------------------------
(* categorize_daily_consumption applied to a daily table of any totals     *)

\* Whole kWh at, beside and between the bin edges.
CutWholes == {-2, -1, 0, 5, 15, 50, 51, 999999, 1000000}

\* No fraction, and the least fraction.
CutFracs == {0, 1}

CutRows ==
  [client_id : Clients, ext_dev_ref : {"A"}, date_local : {DaysFromCivil(2024, 6, 15)},
   total_kwh : [whole : CutWholes, frac : CutFracs]]

CutTables == TablesOf(CutRows, MaxRows) \ {<<>>}

InitCut ==
  /\ pc = "cut_daily"
  /\ daily \in CutTables
  /\ raw = <<>>
  /\ hourly_raw = <<>>
  /\ hourly = <<>>
  /\ monthly = <<>>
  /\ saved = <<>>
  /\ db_exists = FALSE
  /\ err = "none"
  /\ qi = 0
  /\ qfailed = 0

CutCategorize ==
  /\ pc = "cut_daily"
  /\ daily' = CategorizeWideTotals(daily)
  /\ pc' = "cut_done"
  /\ UNCHANGED <<raw, hourly_raw, hourly, monthly, saved, db_exists, err, qi, qfailed>>

NextCut == CutCategorize

SpecCut == InitCut /\ [][NextCut]_vars

-----------------------------------------------------------------------------
(* add_time_features_hourly applied to a column of any shapes of value     *)

\* A clock of summer time and a clock of standard time, in hours.
TsWalls == {DaysFromCivil(2024, 6, 15) * 24, DaysFromCivil(2024, 1, 15) * 24 + 12}

\* The shapes of a value: a string without offset, a string with the offset +03:00,
\* a string ending in Z, and a Timestamp object of the zone +02:00.
TsShapes(wall) ==
  {[wall |-> wall, off |-> 0, marked |-> FALSE],
   [wall |-> wall, off |-> 3, marked |-> TRUE],
   [wall |-> wall, off |-> 0, marked |-> TRUE],
   [wall |-> wall, off |-> 2, marked |-> TRUE, tzinfo |-> TRUE]}

TsStamps == UNION {TsShapes(wall) : wall \in TsWalls}

TsRows ==
  [client_id : Clients, ext_dev_ref : {"A"}, resolution : {"hourly"},
   timestamp_local : TsStamps, timestamp_utc : {0}, consumption_kwh : {TicksPerKwh}]

TsTables == TablesOf(TsRows, MaxRows) \ {<<>>}

InitTs ==
  /\ pc = "ts_raw"
  /\ hourly_raw \in TsTables
  /\ raw = <<>>
  /\ hourly = <<>>
  /\ daily = <<>>
  /\ monthly = <<>>
  /\ saved = <<>>
  /\ db_exists = FALSE
  /\ err = "none"
  /\ qi = 0
  /\ qfailed = 0

TsTimeFeatures ==
  /\ pc = "ts_raw"
  /\ hourly' = AddTimeFeaturesHourly(hourly_raw)
  /\ pc' = "ts_timed"
  /\ UNCHANGED <<raw, hourly_raw, daily, monthly, saved, db_exists, err, qi, qfailed>>

NextTs == TsTimeFeatures

SpecTs == InitTs /\ [][NextTs]_vars

-----------------------------------------------------------------------------
(* Properties of the run                                                   *)

\* The valid records of the input, in order.
ValidRecords(df) == SelectSeq(df, LAMBDA rec : ValidArray(rec.energy_consumption))

\* The instant t is midnight of the date in the configured zone.
IsLocalMidnight(t, date) == LocalClock(t) = date * 24

\* C1: the Expander emits exactly 24 rows per record with 24 readings and, for each
\* such record and each hour h of 0..23, a row of the record's device and date with
\* hour h and reading array[h] whose timestamp_local is the instant h hours after
\* midnight of the record's date in the configured zone; every row is such a row.
C1_ExpanderEmitsContiguousLocalHours ==
  pc = "expanded" =>
    /\ Len(hourly_raw) = 24 * Len(ValidRecords(raw))
    /\ \A k \in 1..Len(raw) :
         ValidArray(raw[k].energy_consumption) =>
           \A h \in 0..23 :
             \E i \in 1..Len(hourly_raw) :
               /\ hourly_raw[i].client_id = raw[k].client_id
               /\ hourly_raw[i].ext_dev_ref = raw[k].ext_dev_ref
               /\ hourly_raw[i].date_local = raw[k].date
               /\ hourly_raw[i].hour = h
               /\ hourly_raw[i].consumption_kwh = raw[k].energy_consumption[h + 1]
               /\ IsLocalMidnight(InstantOf(hourly_raw[i].timestamp_local) - h, raw[k].date)
    /\ \A i \in 1..Len(hourly_raw) :
         /\ hourly_raw[i].hour \in 0..23
         /\ IsLocalMidnight(InstantOf(hourly_raw[i].timestamp_local) - hourly_raw[i].hour,
                            hourly_raw[i].date_local)

\* A record of a day on which the zone changes its offset has been expanded, and
\* so has a record of a day on which it does not.
C1_Witness ==
  /\ pc = "expanded"
  /\ \E i, j \in 1..Len(hourly_raw) :
       /\ hourly_raw[i].hour = 23
       /\ LocalUtcOffset(InstantOf(hourly_raw[i].timestamp_local)) # hourly_raw[i].timestamp_local.off
       /\ hourly_raw[j].date_local = DaysFromCivil(2024, 6, 15)

\* The first hour at which the array holds its maximum.
FirstMaxIndex(arr) == CHOOSE h \in 0..(Len(arr) - 1) :
                        /\ arr[h + 1] = MaxSeq(arr)
                        /\ \A g \in 0..(h - 1) : arr[g + 1] # MaxSeq(arr)

\* C2: for an input of one valid record (date D, array a) the stages up to the
\* daily aggregation give one daily row, dated D, with total_kwh the sum of a,
\* peak_kwh its maximum, peak_hour the index of the maximum, night_kwh a[0..6] and
\* day_kwh a[18..23]; for 2024-06-15 and [0..23]: 276, 23, 23, 21 and 123 kWh.
C2_SingleRecordDailyRow ==
  (pc = "aggregated" /\ Len(raw) = 1 /\ ValidArray(raw[1].energy_consumption)) =>
    LET a == raw[1].energy_consumption
    IN  /\ Len(daily) = 1
        /\ daily[1].ext_dev_ref = raw[1].ext_dev_ref
        /\ daily[1].date_local = raw[1].date
        /\ daily[1].total_kwh = SumSeq(a)
        /\ daily[1].peak_kwh = MaxSeq(a)
        /\ daily[1].peak_hour = FirstMaxIndex(a)
        /\ daily[1].night_kwh = SumSeq(SubSeq(a, 1, 7))
        /\ daily[1].day_kwh = SumSeq(SubSeq(a, 19, 24))
        /\ (raw[1].date = DaysFromCivil(2024, 6, 15) /\ a = Ramp) =>
             /\ daily[1].total_kwh = 276 * TicksPerKwh
             /\ daily[1].peak_hour = 23
             /\ daily[1].peak_kwh = 23 * TicksPerKwh
             /\ daily[1].night_kwh = 21 * TicksPerKwh
             /\ daily[1].day_kwh = 123 * TicksPerKwh

\* C3: after add_time_features_hourly every row's hour, date_local, day_of_week,
\* month and year are those of its timestamp in the configured zone, and the hour
\* and date_local of a row are those the Expander wrote for it.
C3_TimeFeaturesAreLocal ==
  pc = "timed" =>
    /\ Len(hourly) = Len(hourly_raw)
    /\ \A i \in 1..Len(hourly) :
         LET local == LocalClock(InstantOf(hourly[i].timestamp_local))
         IN  /\ hourly[i].hour = HourOfHours(local)
             /\ hourly[i].date_local = DateOfHours(local)
             /\ hourly[i].day_of_week = DayOfWeek(DateOfHours(local))
             /\ hourly[i].month = MonthOf(DateOfHours(local))
             /\ hourly[i].year = YearOf(DateOfHours(local))
             /\ hourly[i].hour = hourly_raw[i].hour
             /\ hourly[i].date_local = hourly_raw[i].date_local

\* The positions of the rows of a device, in the order of the table.
RowsOfDevice(df, dev) == SelectSeq([j \in 1..Len(df) |-> j], LAMBDA j : df[j].ext_dev_ref = dev)

\* The lag column of a row.
LagOf(row, lag) == IF lag = 1 THEN row.lag_1h ELSE row.lag_24h

\* C5: after add_lag_features the rows of each device stand in timestamp order and,
\* for each lag L of 1 and 24, the lag_{L}h of the device's k-th row is the
\* consumption_kwh of the device's (k-L)-th row, and is undefined exactly when the
\* device has fewer than L earlier rows.
C5_LagIsOwnEarlierReading ==
  pc = "lagged" =>
    /\ Len(hourly) = Len(hourly_raw)
    /\ \A dev \in Devices :
         LET idx == RowsOfDevice(hourly, dev)
         IN  \A k \in 1..Len(idx) :
               /\ k > 1 => hourly[idx[k - 1]].timestamp <= hourly[idx[k]].timestamp
               /\ \A lag \in {1, 24} :
                    IF k > lag
                    THEN LagOf(hourly[idx[k]], lag) = Some(hourly[idx[k - lag]].consumption_kwh)
                    ELSE LagOf(hourly[idx[k]], lag) = NaN

\* Lags have been added to a table holding rows of two devices: a row of the second
\* device has its own earlier reading as lag_1h and, with 24 or more rows of the
\* other device before it in the table but fewer than 24 of its own, no lag_24h.
C5_Witness ==
  /\ pc = "lagged"
  /\ \E i \in 26..Len(hourly) :
       /\ hourly[i].ext_dev_ref # hourly[1].ext_dev_ref
       /\ hourly[i].lag_1h = Some(hourly[i - 1].consumption_kwh)
       /\ hourly[i].lag_24h = NaN

\* C7: a record whose array has not 24 readings contributes no hourly row, the
\* Expander returning the rows it returns for the input without such records, and
\* the run does not raise for it, however many of the records are such records.
C7_InvalidRecordsAreNeverFatal ==
  /\ pc = "expanded" => hourly_raw = ExpandDailyArrayToHourly(ValidRecords(raw))
  /\ ~(pc = "crashed" /\ err = "KeyError")

\* C8: a failure while persisting a table or running a query is not propagated,
\* and the writes and queries after it are still attempted.
C8_PersistenceFailuresAreContained ==
  /\ ~(pc = "crashed" /\ err = "to_sql")
  /\ (pc = "done" /\ db_exists) => qi = NumQueries

\* The rolling column of a daily row.
RollingOf(row, w) == IF w = 7 THEN row.rolling_7d_total_kwh ELSE row.rolling_30d_total_kwh

\* The total_kwh of the daily rows of row i's device whose date lies in the w
\* calendar days ending at row i's date.
TotalsInCalendarWindow(i, w) ==
  LET rows == SelectSeq(daily, LAMBDA row : /\ row.client_id = daily[i].client_id
                                            /\ row.ext_dev_ref = daily[i].ext_dev_ref
                                            /\ row.date_local > daily[i].date_local - w
                                            /\ row.date_local <= daily[i].date_local)
  IN  [k \in 1..Len(rows) |-> rows[k].total_kwh]

\* C11: after add_rolling_aggregates_daily, for each window W of 7 and 30 and each
\* daily row, rolling_{W}d_total_kwh is the mean, rounded to 6 decimals, of total_kwh
\* over the daily rows of the row's device dated in the W calendar days that end at
\* the row's date, also when the device has days without data.
C11_RollingMeanOverCalendarWindow ==
  pc = "enriched" =>
    \A i \in 1..Len(daily) :
      \A w \in {7, 30} :
        RollingOf(daily[i], w) =
          RoundMean6(SumSeq(TotalsInCalendarWindow(i, w)), Len(TotalsInCalendarWindow(i, w)))

\* C12: with the default bins categorize_daily_consumption gives every daily row
\* whose total_kwh is above -1 one label: very_low up to 5, low up to 15, medium
\* up to 50 and high for every total above 50, however large.
C12_EveryTotalAboveMinusOneHasItsBand ==
  pc = "cut_done" =>
    \A i \in 1..Len(daily) :
      LET whole == daily[i].total_kwh.whole
          frac  == daily[i].total_kwh.frac
      IN  ~AtMostEdge(whole, frac, -1) =>
            daily[i].consumption_category =
              IF AtMostEdge(whole, frac, 5) THEN "very_low"
              ELSE IF AtMostEdge(whole, frac, 15) THEN "low"
              ELSE IF AtMostEdge(whole, frac, 50) THEN "medium"
              ELSE "high"

\* C13: in add_time_features_hourly every value without an offset is localized to
\* the zone, its clock unchanged, and every value with an offset, a Z or a zone of
\* its own denotes the instant it names at that offset, row by row, whatever the
\* shapes of the other values of the column.
C13_TimestampsAreNormalizedRowByRow ==
  pc = "ts_timed" =>
    /\ Len(hourly) = Len(hourly_raw)
    /\ \A i \in 1..Len(hourly) :
         LET x == hourly_raw[i].timestamp_local
         IN  IF HasTzinfo(x) \/ x.marked
             THEN hourly[i].timestamp = x.wall - x.off
             ELSE LocalClock(hourly[i].timestamp) = x.wall

-----------------------------------------------------------------------------
(* Properties of the daily functions                                       *)

\* A float quotient is a finite number.
IsFinite(q) == q.kind = "finite"

\* A finite quotient p / (s / n), n > 0, is at least 0.
IsNonNegative(q) == q.p = 0 \/ (q.p > 0 /\ q.s > 0) \/ (q.p < 0 /\ q.s < 0)

IsZero(q) == q.p = 0

\* C4: every row of aggregate_daily_from_hourly has a finite peak_to_mean_ratio that
\* is at least 0, also for groups with negative readings, and the ratio is 0 when
\* mean_kwh is 0.
C4_PeakToMeanRatioFiniteNonNegative ==
  pc = "fn_daily" =>
    \A g \in 1..Len(daily) :
      /\ IsFinite(daily[g].peak_to_mean_ratio)
      /\ IsNonNegative(daily[g].peak_to_mean_ratio)
      /\ daily[g].mean_kwh[1] = 0 => IsZero(daily[g].peak_to_mean_ratio)

\* The rows of the hourly table of a daily row's client, device and date.
HourlyRowsOf(day) ==
  SelectSeq(hourly, LAMBDA row : /\ row.client_id = day.client_id
                                 /\ row.ext_dev_ref = day.ext_dev_ref
                                 /\ row.date_local = day.date_local)

\* The daily table has exactly one row for each (client_id, ext_dev_ref, date_local)
\* of the hourly table, with peak_kwh the greatest reading of the group.
OneRowPerDayWithPeak ==
  /\ \A i \in 1..Len(hourly) :
       Cardinality({g \in 1..Len(daily) : HourlyRowsOf(daily[g]) # <<>>
                                          /\ DailyKey(daily[g]) = DailyKey(hourly[i])}) = 1
  /\ \A g \in 1..Len(daily) :
       /\ HourlyRowsOf(daily[g]) # <<>>
       /\ \A f \in 1..Len(daily) : DailyKey(daily[f]) = DailyKey(daily[g]) => f = g
       /\ \A i \in 1..Len(HourlyRowsOf(daily[g])) :
            HourlyRowsOf(daily[g])[i].consumption_kwh <= daily[g].peak_kwh
       /\ \E i \in 1..Len(HourlyRowsOf(daily[g])) :
            HourlyRowsOf(daily[g])[i].consumption_kwh = daily[g].peak_kwh

\* The hours of the rows of a group that hold the group's peak.
PeakHours(day) ==
  {HourlyRowsOf(day)[i].hour : i \in {j \in 1..Len(HourlyRowsOf(day)) :
                                        HourlyRowsOf(day)[j].consumption_kwh = day.peak_kwh}}

\* C10 as stated: one row per (client_id, ext_dev_ref, date_local), peak_kwh the
\* group's maximum and peak_hour the smallest hour of the rows that attain it, for
\* every order of the rows.
C10_PeakHourIsSmallestHour ==
  pc = "fn_daily" =>
    /\ OneRowPerDayWithPeak
    /\ \A g \in 1..Len(daily) :
         /\ daily[g].peak_hour \in PeakHours(daily[g])
         /\ \A h \in PeakHours(daily[g]) : daily[g].peak_hour <= h

\* C10 as amended: one row per (client_id, ext_dev_ref, date_local), peak_kwh the
\* group's maximum and peak_hour the hour of the first row of the group, in the
\* order of the input, that attains it; that is the smallest such hour when the
\* rows of the group stand in ascending order of hour.
C10_PeakHourIsFirstOccurrence ==
  pc = "fn_daily" =>
    /\ OneRowPerDayWithPeak
    /\ \A g \in 1..Len(daily) :
         LET rows == HourlyRowsOf(daily[g])
         IN  /\ \E i \in 1..Len(rows) :
                  /\ rows[i].consumption_kwh = daily[g].peak_kwh
                  /\ rows[i].hour = daily[g].peak_hour
                  /\ \A j \in 1..(i - 1) : rows[j].consumption_kwh # daily[g].peak_kwh
             /\ (\A i \in 2..Len(rows) : rows[i - 1].hour <= rows[i].hour) =>
                  \A h \in PeakHours(daily[g]) : daily[g].peak_hour <= h

\* A group whose maximum is held at two hours, the later hour first in the input.
C10_Witness ==
  /\ pc = "fn_daily"
  /\ \E g \in 1..Len(daily) :
       /\ Cardinality(PeakHours(daily[g])) = 2
       /\ HourlyRowsOf(daily[g])[1].hour = 20

\* The daily rows of a monthly row's client, device, year and month.
DailyRowsOf(m) ==
  SelectSeq(daily, LAMBDA day : /\ day.client_id = m.client_id
                                /\ day.ext_dev_ref = m.ext_dev_ref
                                /\ YearOf(day.date_local) = m.year
                                /\ MonthOf(day.date_local) = m.month)

DailyTotals(m) == [i \in 1..Len(DailyRowsOf(m)) |-> DailyRowsOf(m)[i].total_kwh]

\* The monthly table has exactly one row for the client, device, year and month of
\* each daily row, and days_with_data counts the daily rows of that month.
OneRowPerMonthWithCount ==
  /\ \A i \in 1..Len(daily) :
       Cardinality({g \in 1..Len(monthly) :
                      /\ monthly[g].client_id = daily[i].client_id
                      /\ monthly[g].ext_dev_ref = daily[i].ext_dev_ref
                      /\ monthly[g].year = YearOf(daily[i].date_local)
                      /\ monthly[g].month = MonthOf(daily[i].date_local)}) = 1
  /\ \A g \in 1..Len(monthly) :
       /\ DailyRowsOf(monthly[g]) # <<>>
       /\ monthly[g].days_with_data = Len(DailyRowsOf(monthly[g]))

\* C6 as stated: monthly_total_kwh of a device, year and month is the sum of
\* total_kwh over the daily rows of that device in that year and month, and
\* days_with_data is their number.
C6_MonthlyTotalIsSum ==
  pc = "fn_monthly" =>
    /\ OneRowPerMonthWithCount
    /\ \A g \in 1..Len(monthly) : monthly[g].monthly_total_kwh = SumSeq(DailyTotals(monthly[g]))

\* C6 as amended: monthly_total_kwh is that sum rounded to 6 decimals.
C6_MonthlyTotalIsRoundedSum ==
  pc = "fn_monthly" =>
    /\ OneRowPerMonthWithCount
    /\ \A g \in 1..Len(monthly) :
         LET sum == SumSeq(DailyTotals(monthly[g]))
         IN  /\ monthly[g].monthly_total_kwh % 2 = 0
             /\ monthly[g].monthly_total_kwh - sum \in {-1, 0, 1}
             /\ (sum % 4 = 1 => monthly[g].monthly_total_kwh = sum - 1)
             /\ (sum % 4 = 3 => monthly[g].monthly_total_kwh = sum + 1)

\* A month of two days of one device whose sum is not a whole number of micro-kWh.
C6_Witness ==
  /\ pc = "fn_monthly"
  /\ \E g \in 1..Len(monthly) :
       /\ monthly[g].days_with_data = 2
       /\ SumSeq(DailyTotals(monthly[g])) % 2 = 1

\* The dates of a device in the hourly table, in ascending order.
DatesOfDevice(dev) ==
  SortedKeys({<<hourly[i].date_local>> : i \in {j \in 1..Len(hourly) : hourly[j].ext_dev_ref = dev}})

\* The readings of a device on a date at an hour.
ReadingsAt(dev, date, h) ==
  Consumption(SelectSeq(hourly, LAMBDA row : /\ row.ext_dev_ref = dev
                                             /\ row.date_local = date
                                             /\ row.hour = h))

\* The 24-hour vectors of a device on two dates are identical: at every hour the
\* means of the readings agree, an hour without readings counting as 0.
SameDayVector(dev, d1, d2) ==
  \A h \in 0..23 :
    LET a == ReadingsAt(dev, d1, h)
        b == ReadingsAt(dev, d2, h)
    IN  SumSeq(a) * (IF b = <<>> THEN 1 ELSE Len(b)) = SumSeq(b) * (IF a = <<>> THEN 1 ELSE Len(a))

\* A similarity dot / sqrt(nx * ny) is 1.
SimilarityIsOne(sim) == sim.dot > 0 /\ sim.dot * sim.dot = sim.nx * sim.ny

\* The similarity column says so of every daily row of the device and date.
SimilarityOfDay(dev, date, Is(_)) ==
  \A g \in 1..Len(daily) :
    (daily[g].ext_dev_ref = dev /\ daily[g].date_local = date) =>
      /\ daily[g].daily_load_similarity # NaN
      /\ Is(daily[g].daily_load_similarity[1])

\* C9: the second of two consecutive days of a device with identical
\* 24-hour vectors has daily_load_similarity 1.0, whatever the values.
C9_IdenticalDaysHaveSimilarityOne ==
  pc = "fn_similarity" =>
    \A dev \in Devices :
      \A k \in 2..Len(DatesOfDevice(dev)) :
        LET d1 == DatesOfDevice(dev)[k - 1][1]
            d2 == DatesOfDevice(dev)[k][1]
        IN  SameDayVector(dev, d1, d2) => SimilarityOfDay(dev, d2, SimilarityIsOne)

====
